---- MODULE Spec2Model ----
(***************************************************************************)
(* Lean.Meta.unifyEq? (stage0/stdlib/Lean/Meta/Tactic/UnifyEq.c).          *)
(*                                                                         *)
(* One call of unifyEq? is a sequential walk through the compiled code:    *)
(* every call of an external MetaM function (getLocalDecl, isExprDefEq,    *)
(* whnf, inferType, mkEqOfHEq, mkEq, assert, clear, substCore,             *)
(* injectionCore, the caller's acyclic, the trace sink) is one step.  The  *)
(* position in the code is pc; the externally visible state is the         *)
(* metavariable context (one local context per goal, and the set of goals  *)
(* already assigned), the log of external calls and the emitted traces.    *)
(***************************************************************************)
EXTENDS Integers, Sequences, FiniteSets, TLC

VARIABLES
    pc,         \* position in the code of unifyEq?
    lctx,       \* metavariable context: lctx[m] is the local context of goal m
    assigned,   \* goals already assigned (closed or replaced by a new goal)
    nextId,     \* next fresh free-variable id
    newHyps,    \* ids of the hypotheses created by assert / injectionCore
    eqFVarId,   \* argument x_2 of unifyEq?: the hypothesis to eliminate
    subst0,     \* argument x_3 of unifyEq?: the caller's FVarSubst
    caseName,   \* argument x_5 of unifyEq?: caseName? ("" is none)
    traceOn,    \* the trace option Meta.debug
    loc,        \* the locals of the running call
    calls,      \* log of the external calls made so far
    traces,     \* messages handed to addTrace
    outcome,    \* "running", "some", "none" or "error"
    result,     \* the UnifyEqResult of outcome "some"
    err         \* the exception of outcome "error"

vars == <<pc, lctx, assigned, nextId, newHyps, eqFVarId, subst0, caseName,
          traceOn, loc, calls, traces, outcome, result, err>>

----------------------------------------------------------------------------
(* Bounds of the model. *)

\* number of term variables x1 .. xn declared in the input context
MaxVars == 2

----------------------------------------------------------------------------
(* Expressions.  Every expression is a record [k, id, c, args]:            *)
(*   fvar  : a free variable, id its FVarId                                *)
(*   const : a stuck constant application that is no constructor (c)       *)
(*   ctor  : a saturated application of constructor c to args              *)
(*   red   : a reducible wrapper, whnf exposes args[1]                     *)
(*   mvar  : an assigned metavariable, instantiateMVars yields args[1]     *)

NoExpr == [k |-> "none", id |-> 0, c |-> "", args |-> <<>>]

mkFVar(i) == [k |-> "fvar", id |-> i, c |-> "", args |-> <<>>]

mkConst(n) == [k |-> "const", id |-> 0, c |-> n, args |-> <<>>]

mkCtorApp(n, as) == [k |-> "ctor", id |-> 0, c |-> n, args |-> as]

mkRed(t) == [k |-> "red", id |-> 0, c |-> "", args |-> <<t>>]

mkMVar(t) == [k |-> "mvar", id |-> 0, c |-> "", args |-> <<t>>]

\* Expr tag 1 (lean_obj_tag(x) == 1) is Expr.fvar
isFVar(e) == e.k = "fvar"

RECURSIVE instantiateMVars(_)
instantiateMVars(e) ==
    IF e.k = "mvar" THEN instantiateMVars(e.args[1])
    ELSE [e EXCEPT !.args = [i \in DOMAIN e.args |-> instantiateMVars(e.args[i])]]

RECURSIVE whnf(_)
whnf(e) ==
    IF e.k \in {"red", "mvar"} THEN whnf(e.args[1]) ELSE e

RECURSIVE normalForm(_)
normalForm(e) ==
    IF e.k \in {"red", "mvar"} THEN normalForm(e.args[1])
    ELSE [e EXCEPT !.args = [i \in DOMAIN e.args |-> normalForm(e.args[i])]]

\* the answer of Meta.isExprDefEq on two terms: equal normal forms
isExprDefEq(a, b) == normalForm(a) = normalForm(b)

\* the constructors C and D have two fields each
numFields(c) == IF c \in {"C", "D"} THEN 2 ELSE 0

\* a saturated application of a constructor
isConstructorApp(e) == e.k = "ctor" /\ Len(e.args) = numFields(e.c)

\* structural equality of expressions
expr_eqv(a, b) == a = b

RECURSIVE fvarsOf(_)
fvarsOf(e) ==
    IF e.k = "fvar" THEN {e.id}
    ELSE UNION {fvarsOf(e.args[i]) : i \in DOMAIN e.args}

RECURSIVE replaceFVarId(_, _, _)
replaceFVarId(e, i, v) ==
    IF e.k = "fvar" THEN (IF e.id = i THEN v ELSE e)
    ELSE [e EXCEPT !.args = [j \in DOMAIN e.args |-> replaceFVarId(e.args[j], i, v)]]

----------------------------------------------------------------------------
(* Types of local declarations: [k, lty, lhs, rty, rhs].                   *)
(*   T   : the type of the term variables                                  *)
(*   P   : a proposition about lhs that is no equality                     *)
(*   Eq  : Eq lty lhs rhs        (3 arguments)                             *)
(*   HEq : HEq lty lhs rty rhs   (4 arguments)                             *)
(* The sorts are "T", its reducible alias "Tr" and the distinct "U".       *)

mkT == [k |-> "T", lty |-> "", lhs |-> NoExpr, rty |-> "", rhs |-> NoExpr]

mkP(a) == [k |-> "P", lty |-> "", lhs |-> a, rty |-> "", rhs |-> NoExpr]

mkEqType(ty, a, b) == [k |-> "Eq", lty |-> ty, lhs |-> a, rty |-> ty, rhs |-> b]

mkHEqType(ta, a, tb, b) == [k |-> "HEq", lty |-> ta, lhs |-> a, rty |-> tb, rhs |-> b]

NoType == [k |-> "none", lty |-> "", lhs |-> NoExpr, rty |-> "", rhs |-> NoExpr]

isHEq(ty) == ty.k = "HEq"

\* faulty variant: every proposition with a left operand passes for an equality
isEq_loose(ty) == ty.k \in {"Eq", "P"}

\* Expr.isAppOfArity type `Eq 3
isEq(ty) == ty.k = "Eq"

sortNormalForm(s) == IF s = "Tr" THEN "T" ELSE s

typeFVars(ty) == fvarsOf(ty.lhs) \cup fvarsOf(ty.rhs)

typeReplaceFVarId(ty, i, v) ==
    [ty EXCEPT !.lhs = replaceFVarId(ty.lhs, i, v), !.rhs = replaceFVarId(ty.rhs, i, v)]

----------------------------------------------------------------------------
(* Local contexts: a sequence of LocalDecl [id, userName, type]; the       *)
(* declaration index of a declaration is its position.                     *)

mkLocalDecl(i, n, ty) == [id |-> i, userName |-> n, type |-> ty]

NoDecl == mkLocalDecl(0, "", NoType)

ctxIds(ctx) == {ctx[i].id : i \in DOMAIN ctx}

contains(ctx, i) == i \in ctxIds(ctx)

LocalDecl_index(ctx, i) == CHOOSE p \in DOMAIN ctx : ctx[p].id = i

findDecl(ctx, i) == ctx[LocalDecl_index(ctx, i)]

eraseDecl(ctx, i) == SelectSeq(ctx, LAMBDA d : d.id # i)

\* a declaration refers only to declarations of strictly smaller index
wellFormed(ctx) ==
    /\ \A p, q \in DOMAIN ctx : ctx[p].id = ctx[q].id => p = q
    /\ \A p \in DOMAIN ctx : \A i \in typeFVars(ctx[p].type) :
           \E q \in 1..(p - 1) : ctx[q].id = i

dependsOn(d, ids) == typeFVars(d.type) \cap ids # {}

----------------------------------------------------------------------------
(* FVarSubst: a function from FVarIds to expressions. *)

emptySubst == [i \in {} |-> NoExpr]

FVarSubst_insert(s, i, v) ==
    IF i \in DOMAIN s THEN s
    ELSE [j \in DOMAIN s \cup {i} |-> IF j = i THEN v ELSE replaceFVarId(s[j], i, v)]

RECURSIVE insertRenamed(_, _, _, _)
insertRenamed(s, olds, fresh, k) ==
    IF k > Len(olds) THEN s
    ELSE insertRenamed(FVarSubst_insert(s, olds[k].id, mkFVar(fresh + k - 1)), olds, fresh, k + 1)

----------------------------------------------------------------------------
(* The external tactics, as functions of the local context they act on.    *)

\* Meta.clear: fails when the hypothesis is unknown or something depends on it
clear_ok(ctx, i) ==
    /\ contains(ctx, i)
    /\ \A p \in DOMAIN ctx : ~dependsOn(ctx[p], {i})

\* Meta.assert followed by its introduction: the hypothesis joins the context
assertDecl(ctx, n, ty, fresh) == Append(ctx, mkLocalDecl(fresh, n, ty))

\* AppBuilder.mkEqOfHEq: the sorts of the two sides must be defeq
mkEqOfHEq_ok(ty) == isHEq(ty) /\ sortNormalForm(ty.lty) = sortNormalForm(ty.rty)

\* the type of eq_of_heq h, as inferType followed by whnf reports it
eqOfHEqType(ty) == mkEqType(ty.lty, ty.lhs, ty.rhs)

\* faulty variant: the variable is replaced where it stands, nothing is reverted
substCore_inPlace(ctx, hId, symm, fvarSubst, fresh) ==
    LET h == findDecl(ctx, hId)
        a == instantiateMVars(IF symm THEN h.type.rhs ELSE h.type.lhs)
        b == instantiateMVars(IF symm THEN h.type.lhs ELSE h.type.rhs)
        kept == SelectSeq(ctx, LAMBDA d : d.id \notin {a.id, hId})
        new == [k \in 1..Len(kept) |->
                  [kept[k] EXCEPT !.type = typeReplaceFVarId(kept[k].type, a.id, b)]]
    IN  IF ~contains(ctx, hId) \/ h.type.k # "Eq" \/ ~isFVar(a) \/ a.id \in fvarsOf(b)
        THEN [ok |-> FALSE, ctx |-> ctx, subst |-> fvarSubst, fresh |-> fresh]
        ELSE [ok |-> TRUE, ctx |-> new, subst |-> FVarSubst_insert(fvarSubst, a.id, b),
              fresh |-> fresh]

\* Meta.substCore mvarId hFVarId symm fvarSubst (clearH := true):
\* h : lhs = rhs; symm = false eliminates the variable lhs, symm = true the
\* variable rhs.  The variable, h and their dependents are reverted, the
\* variable and h are dropped and the dependents are introduced again, with the
\* variable replaced by the other side, under fresh ids.
substCore(ctx, hId, symm, fvarSubst, fresh) ==
    LET h == findDecl(ctx, hId)
        a == instantiateMVars(IF symm THEN h.type.rhs ELSE h.type.lhs)
        b == instantiateMVars(IF symm THEN h.type.lhs ELSE h.type.rhs)
        rfl == mkConst("rfl")
        reverted == SelectSeq(ctx, LAMBDA d : d.id \notin {a.id, hId} /\ dependsOn(d, {a.id, hId}))
        kept == SelectSeq(ctx, LAMBDA d : d.id \notin {a.id, hId} /\ ~dependsOn(d, {a.id, hId}))
        intro == [k \in 1..Len(reverted) |->
                    mkLocalDecl(fresh + k - 1, reverted[k].userName,
                        typeReplaceFVarId(typeReplaceFVarId(reverted[k].type, a.id, b), hId, rfl))]
        s1 == insertRenamed(fvarSubst, reverted, fresh, 1)
        s2 == FVarSubst_insert(s1, a.id, b)
        s3 == FVarSubst_insert(s2, hId, rfl)
    IN  IF ~contains(ctx, hId) \/ ~isEq(h.type) \/ ~isFVar(a) \/ a.id \in fvarsOf(b)
        THEN [ok |-> FALSE, ctx |-> ctx, subst |-> fvarSubst, fresh |-> fresh]
        ELSE [ok |-> TRUE, ctx |-> kept \o intro, subst |-> s3, fresh |-> fresh + Len(reverted)]

\* Meta.injectionCore mvarId hFVarId on h : c as = c' bs.  Different
\* constructors close the goal; the same constructor yields one field equality
\* per argument and drops h.
injectionCore(ctx, hId, fresh) ==
    LET h == findDecl(ctx, hId)
        a == whnf(instantiateMVars(h.type.lhs))
        b == whnf(instantiateMVars(h.type.rhs))
        n == Len(a.args)
        fields == [k \in 1..n |->
                     mkLocalDecl(fresh + k - 1, "inj", mkEqType(h.type.lty, a.args[k], b.args[k]))]
    IN  IF ~contains(ctx, hId) \/ ~isEq(h.type) \/ ~isConstructorApp(a) \/ ~isConstructorApp(b)
             \/ ~clear_ok(ctx, hId)
        THEN [ok |-> FALSE, solved |-> FALSE, ctx |-> ctx, numNewEqs |-> 0]
        ELSE IF a.c # b.c
        THEN [ok |-> TRUE, solved |-> TRUE, ctx |-> ctx, numNewEqs |-> 0]
        ELSE [ok |-> TRUE, solved |-> FALSE, ctx |-> eraseDecl(ctx, hId) \o fields, numNewEqs |-> n]

----------------------------------------------------------------------------
(* The inputs of one call. *)

leaves == {mkFVar(i) : i \in 1..MaxVars} \cup {mkConst("A"), mkConst("B")}

ctorApps ==
    {mkCtorApp("C", <<l, m>>) : l \in leaves, m \in {mkConst("A"), mkConst("B")}}
        \cup {mkCtorApp("D", <<mkConst("A"), mkConst("A")>>)}

wrapped ==
    {mkRed(mkConst("A")), mkRed(mkFVar(1)), mkRed(mkCtorApp("C", <<mkConst("A"), mkConst("A")>>)),
     mkMVar(mkFVar(1)), mkMVar(mkConst("B"))}

sides == leaves \cup ctorApps \cup wrapped

hypTypes ==
    {mkEqType("T", a, b) : a \in sides, b \in sides}
        \cup {mkHEqType("T", a, s, b) : a \in leaves, b \in leaves, s \in {"T", "Tr", "U"}}
        \cup {mkP(a) : a \in {mkConst("A"), mkFVar(1)}}

RECURSIVE varBlocks(_, _)
varBlocks(i, early) ==
    IF i > MaxVars THEN <<>>
    ELSE <<mkLocalDecl(i, "x", mkT)>>
            \o (IF early = i THEN <<mkLocalDecl(10, "d", mkP(mkFVar(i)))>> ELSE <<>>)
            \o varBlocks(i + 1, early)

\* x1 .. xn, a dependent d of one of them, the hypothesis h, a later dependent e
inputCtx(early, hty, trail) ==
    varBlocks(1, early)
        \o <<mkLocalDecl(20, "h", hty)>>
        \o (IF trail = 0 THEN <<>> ELSE <<mkLocalDecl(30, "e", mkP(mkFVar(trail)))>>)

NoLocals ==
    [eqDecl |-> NoDecl, a |-> NoExpr, b |-> NoExpr, ai |-> NoExpr, bi |-> NoExpr,
     symm |-> FALSE, aw |-> NoExpr, bw |-> NoExpr, type |-> NoType, mvarId |-> 1]

\* UnifyEqResult.numNewEqs has default value 0
numNewEqs_default == 0

NoResult == [mvarId |-> 0, subst |-> emptySubst, numNewEqs |-> numNewEqs_default]

NoError == [msg |-> "", type |-> NoType, caseName |-> "", from |-> ""]

Init ==
    /\ pc = "start"
    /\ eqFVarId \in {20, 99}
    /\ \E early \in 0..MaxVars, trail \in (0..MaxVars) \cup {20}, hty \in hypTypes :
           /\ lctx = <<inputCtx(early, hty, trail)>>
           /\ eqFVarId = 99 => early = 0 /\ trail = 0 /\ hty = mkP(mkConst("A"))
    /\ assigned = {}
    /\ nextId = 40
    /\ newHyps = {}
    /\ subst0 \in {emptySubst, [i \in {7} |-> mkFVar(1)]}
    /\ caseName \in {"", "alt"}
    /\ traceOn \in BOOLEAN
    /\ loc = NoLocals
    /\ calls = <<>>
    /\ traces = <<>>
    /\ outcome = "running"
    /\ result = NoResult
    /\ err = NoError

----------------------------------------------------------------------------
(* How a call ends. *)

\* throwError: the exception carries the message and the hypothesis type
throwError(m, ty, cn) ==
    /\ pc' = "done"
    /\ outcome' = "error"
    /\ err' = [msg |-> m, type |-> ty, caseName |-> cn, from |-> "unifyEq"]
    /\ result' = result

\* faulty variant: the exception of the callee is replaced by one of unifyEq?
propagate_wrapped(f) ==
    /\ pc' = "done"
    /\ outcome' = "error"
    /\ err' = [msg |-> "external", type |-> NoType, caseName |-> "", from |-> "unifyEq"]
    /\ result' = result

\* an exception of an external call is returned as it is
propagate(f) ==
    /\ pc' = "done"
    /\ outcome' = "error"
    /\ err' = [msg |-> "external", type |-> NoType, caseName |-> "", from |-> f]
    /\ result' = result

\* faulty variant: the result is built with the empty substitution
returnSome_emptySubst(m, s, n) ==
    /\ pc' = "done"
    /\ outcome' = "some"
    /\ result' = [mvarId |-> m, subst |-> emptySubst, numNewEqs |-> n]
    /\ err' = err

\* return (some {mvarId, subst, numNewEqs})
returnSome(m, s, n) ==
    /\ pc' = "done"
    /\ outcome' = "some"
    /\ result' = [mvarId |-> m, subst |-> s, numNewEqs |-> n]
    /\ err' = err

\* return none
returnNone ==
    /\ pc' = "done"
    /\ outcome' = "none"
    /\ result' = result
    /\ err' = err

goOn(p) ==
    /\ pc' = p
    /\ UNCHANGED <<outcome, result, err>>

\* a tactic replaces goal m by a new goal with local context ctx
newGoal(m, ctx) ==
    /\ lctx' = Append(lctx, ctx)
    /\ assigned' = assigned \cup {m}

called(f) == calls' = Append(calls, f)

inputs == <<eqFVarId, subst0, caseName, traceOn>>

mctx == <<lctx, assigned, nextId, newHyps>>

----------------------------------------------------------------------------
(* unifyEq? : the dispatcher (l_Lean_Meta_unifyEq_x3f___lambda__1). *)

\* let eqDecl <- getLocalDecl eqFVarId
unifyEq_getLocalDecl ==
    /\ pc = "start"
    /\ called("getLocalDecl")
    /\ IF contains(lctx[1], eqFVarId)
       THEN /\ loc' = [loc EXCEPT !.eqDecl = findDecl(lctx[1], eqFVarId)]
            /\ goOn("classify")
       ELSE /\ propagate("getLocalDecl")
            /\ loc' = loc
    /\ UNCHANGED <<mctx, inputs, traces>>

\* faulty variant: a heterogeneous hypothesis is dispatched like a homogeneous one
unifyEq_classify_unconverted ==
    /\ pc = "classify"
    /\ LET ty == loc.eqDecl.type
       IN  IF ~isHEq(ty) /\ ~isEq(ty)
           THEN /\ throwError("equality expected", ty, "")
                /\ UNCHANGED <<loc, calls>>
           ELSE /\ loc' = [loc EXCEPT !.a = ty.lhs, !.b = ty.rhs,
                                      !.ai = instantiateMVars(ty.lhs),
                                      !.bi = instantiateMVars(ty.rhs)]
                /\ calls' = calls \o <<"instantiateMVars", "instantiateMVars">>
                /\ goOn("match")
    /\ UNCHANGED <<mctx, inputs, traces>>

\* eqDecl.type.isHEq, eqDecl.type.eq?, instantiateMVars of the two sides
unifyEq_classify ==
    /\ pc = "classify"
    /\ LET ty == loc.eqDecl.type
       IN  IF isHEq(ty)
           THEN /\ goOn("heqToEq_mkEqOfHEq")
                /\ UNCHANGED <<loc, calls>>
           ELSE IF ~isEq(ty)
           THEN /\ throwError("equality expected", ty, "")
                /\ UNCHANGED <<loc, calls>>
           ELSE /\ loc' = [loc EXCEPT !.a = ty.lhs, !.b = ty.rhs,
                                      !.ai = instantiateMVars(ty.lhs),
                                      !.bi = instantiateMVars(ty.rhs)]
                /\ calls' = calls \o <<"instantiateMVars", "instantiateMVars">>
                /\ goOn("match")
    /\ UNCHANGED <<mctx, inputs, traces>>

\* faulty variant: the flags of x = t and of t = x are exchanged
substDirection_exchanged(ctx, a, b) ==
    IF isFVar(a)
    THEN (IF isFVar(b) THEN LocalDecl_index(ctx, a.id) < LocalDecl_index(ctx, b.id) ELSE TRUE)
    ELSE FALSE

\* faulty variant: the comparison of the two declaration indices is reversed
substDirection_reversed(ctx, a, b) ==
    IF isFVar(a)
    THEN (IF isFVar(b) THEN LocalDecl_index(ctx, a.id) > LocalDecl_index(ctx, b.id) ELSE FALSE)
    ELSE TRUE

\* the direction handed to substEq: aDecl.index < bDecl.index for x = y,
\* false for x = t, true for t = x
substDirection(ctx, a, b) ==
    IF isFVar(a)
    THEN (IF isFVar(b) THEN LocalDecl_index(ctx, a.id) < LocalDecl_index(ctx, b.id) ELSE FALSE)
    ELSE TRUE

\* match a, b with | fvar, fvar | fvar, _ | _, fvar | _, _
unifyEq_match ==
    /\ pc = "match"
    /\ IF isFVar(loc.ai) /\ isFVar(loc.bi)
       THEN /\ calls' = calls \o <<"getLocalDecl", "getLocalDecl">>
            /\ IF contains(lctx[1], loc.ai.id) /\ contains(lctx[1], loc.bi.id)
               THEN /\ loc' = [loc EXCEPT !.symm = substDirection(lctx[1], loc.ai, loc.bi)]
                    /\ goOn("substEq_substCore")
               ELSE /\ propagate("getLocalDecl")
                    /\ loc' = loc
       ELSE IF isFVar(loc.ai) \/ isFVar(loc.bi)
       THEN /\ loc' = [loc EXCEPT !.symm = substDirection(lctx[1], loc.ai, loc.bi)]
            /\ goOn("substEq_substCore")
            /\ calls' = calls
       ELSE /\ goOn("unifyEq_isDefEq")
            /\ UNCHANGED <<loc, calls>>
    /\ UNCHANGED <<mctx, inputs, traces>>

\* faulty variant: constructor applications go to injection before isDefEq is asked
unifyEq_isDefEq_injectFirst ==
    /\ pc = "unifyEq_isDefEq"
    /\ IF isConstructorApp(loc.ai) /\ isConstructorApp(loc.bi)
       THEN goOn("injection") /\ calls' = calls
       ELSE /\ called("isExprDefEq")
            /\ \E ok \in BOOLEAN :
                   IF ~ok THEN propagate("isExprDefEq")
                   ELSE IF isExprDefEq(loc.ai, loc.bi) THEN goOn("unifyEq_clear")
                   ELSE goOn("injection")
    /\ UNCHANGED <<mctx, inputs, traces, loc>>

\* if (<- isDefEq a b) on the instantiated sides, neither of them a variable
unifyEq_isDefEq ==
    /\ pc = "unifyEq_isDefEq"
    /\ called("isExprDefEq")
    /\ \E ok \in BOOLEAN :
           IF ~ok THEN propagate("isExprDefEq")
           ELSE IF isExprDefEq(loc.ai, loc.bi) THEN goOn("unifyEq_clear")
           ELSE goOn("injection")
    /\ UNCHANGED <<mctx, inputs, traces, loc>>

\* faulty variant: the goal is returned without clearing the hypothesis
unifyEq_clear_kept ==
    /\ pc = "unifyEq_clear"
    /\ called("clear")
    /\ returnSome(1, subst0, 0)
    /\ UNCHANGED <<mctx, inputs, traces, loc>>

\* return some { mvarId := (<- clear mvarId eqFVarId), subst, numNewEqs := 0 }
unifyEq_clear ==
    /\ pc = "unifyEq_clear"
    /\ called("clear")
    /\ IF clear_ok(lctx[1], eqFVarId)
       THEN /\ newGoal(1, eraseDecl(lctx[1], eqFVarId))
            /\ returnSome(Len(lctx) + 1, subst0, 0)
       ELSE /\ propagate("clear")
            /\ UNCHANGED <<lctx, assigned>>
    /\ UNCHANGED <<nextId, newHyps, inputs, traces, loc>>

----------------------------------------------------------------------------
(* substEq (l_Lean_Meta_unifyEq_x3f_substEq). *)

\* faulty variant: the substitution passed in is returned, not that of substCore
substEq_substCore_oldSubst ==
    /\ pc = "substEq_substCore"
    /\ called("substCore")
    /\ LET r == substCore(lctx[1], eqFVarId, loc.symm, subst0, nextId)
       IN  IF r.ok
           THEN /\ newGoal(1, r.ctx)
                /\ nextId' = r.fresh
                /\ returnSome(Len(lctx) + 1, subst0, 0)
           ELSE /\ goOn("substEq_isDefEq")
                /\ UNCHANGED <<lctx, assigned, nextId>>
    /\ UNCHANGED <<newHyps, inputs, traces, loc>>

\* faulty variant: substCore is run without observing?, so that the goal its
\* failed attempt made by reverting stays in the metavariable context
substEq_substCore_unrestored ==
    /\ pc = "substEq_substCore"
    /\ called("substCore")
    /\ LET r == substCore(lctx[1], eqFVarId, loc.symm, subst0, nextId)
       IN  IF r.ok
           THEN /\ newGoal(1, r.ctx)
                /\ nextId' = r.fresh
                /\ returnSome(Len(lctx) + 1, r.subst, 0)
           ELSE /\ goOn("substEq_isDefEq")
                /\ newGoal(1, eraseDecl(lctx[1], eqFVarId))
                /\ nextId' = nextId + 1
    /\ UNCHANGED <<newHyps, inputs, traces, loc>>

\* observing? (substCore mvarId eqFVarId symm subst): a failure restores the
\* saved state and yields none
substEq_substCore ==
    /\ pc = "substEq_substCore"
    /\ called("substCore")
    /\ LET r == substCore(lctx[1], eqFVarId, loc.symm, subst0, nextId)
       IN  IF r.ok
           THEN /\ newGoal(1, r.ctx)
                /\ nextId' = r.fresh
                /\ returnSome(Len(lctx) + 1, r.subst, 0)
           ELSE /\ goOn("substEq_isDefEq")
                /\ UNCHANGED <<lctx, assigned, nextId>>
    /\ UNCHANGED <<newHyps, inputs, traces, loc>>

\* else if (<- isDefEq a b)
substEq_isDefEq ==
    /\ pc = "substEq_isDefEq"
    /\ called("isExprDefEq")
    /\ \E ok \in BOOLEAN :
           IF ~ok THEN propagate("isExprDefEq")
           ELSE IF isExprDefEq(loc.a, loc.b) THEN goOn("substEq_clear")
           ELSE goOn("substEq_acyclic")
    /\ UNCHANGED <<mctx, inputs, traces, loc>>

\* faulty variant: the cleared hypothesis is entered into the substitution
substEq_clear_substituted ==
    /\ pc = "substEq_clear"
    /\ called("clear")
    /\ IF clear_ok(lctx[1], eqFVarId)
       THEN /\ newGoal(1, eraseDecl(lctx[1], eqFVarId))
            /\ returnSome(Len(lctx) + 1, FVarSubst_insert(subst0, eqFVarId, mkConst("rfl")), 0)
       ELSE /\ propagate("clear")
            /\ UNCHANGED <<lctx, assigned>>
    /\ UNCHANGED <<nextId, newHyps, inputs, traces, loc>>

\* return some { mvarId := (<- clear mvarId eqFVarId), subst, numNewEqs := 0 }
substEq_clear ==
    /\ pc = "substEq_clear"
    /\ called("clear")
    /\ IF clear_ok(lctx[1], eqFVarId)
       THEN /\ newGoal(1, eraseDecl(lctx[1], eqFVarId))
            /\ returnSome(Len(lctx) + 1, subst0, 0)
       ELSE /\ propagate("clear")
            /\ UNCHANGED <<lctx, assigned>>
    /\ UNCHANGED <<nextId, newHyps, inputs, traces, loc>>

\* faulty variant: a cyclic equation has its hypothesis cleared before none is returned
substEq_acyclic_cleared ==
    /\ pc = "substEq_acyclic"
    /\ called("acyclic")
    /\ \E ok \in BOOLEAN, ans \in BOOLEAN :
           IF ~ok
           THEN propagate("acyclic") /\ UNCHANGED <<lctx, assigned>>
           ELSE IF ans
           THEN returnNone /\ newGoal(1, eraseDecl(lctx[1], eqFVarId))
           ELSE /\ throwError("failed to solve equation", loc.eqDecl.type, "")
                /\ UNCHANGED <<lctx, assigned>>
    /\ UNCHANGED <<nextId, newHyps, inputs, traces, loc>>

\* faulty variant: the error names the case, as the error of injection does
substEq_acyclic_atCase ==
    /\ pc = "substEq_acyclic"
    /\ called("acyclic")
    /\ \E ok \in BOOLEAN, ans \in BOOLEAN :
           IF ~ok THEN propagate("acyclic")
           ELSE IF ans THEN returnNone
           ELSE throwError("failed to solve equation", loc.eqDecl.type, caseName)
    /\ UNCHANGED <<mctx, inputs, traces, loc>>

\* else if (<- acyclic mvarId (mkFVar eqFVarId)) then return none else throwError
substEq_acyclic ==
    /\ pc = "substEq_acyclic"
    /\ called("acyclic")
    /\ \E ok \in BOOLEAN, ans \in BOOLEAN :
           IF ~ok THEN propagate("acyclic")
           ELSE IF ans THEN returnNone
           ELSE throwError("failed to solve equation", loc.eqDecl.type, "")
    /\ UNCHANGED <<mctx, inputs, traces, loc>>

----------------------------------------------------------------------------
(* injection (l_Lean_Meta_unifyEq_x3f_injection and its lambdas). *)

\* if a.isConstructorApp env && b.isConstructorApp env
injection_isConstructorApp ==
    /\ pc = "injection"
    /\ IF isConstructorApp(loc.ai) /\ isConstructorApp(loc.bi)
       THEN goOn("injection_injectionCore")
       ELSE goOn("injection_whnf_a")
    /\ UNCHANGED <<mctx, inputs, traces, loc, calls>>

\* faulty variant: the goal handed to injectionCore is returned, not its subgoal
injection_injectionCore_stale ==
    /\ pc = "injection_injectionCore"
    /\ called("injectionCore")
    /\ LET r == injectionCore(lctx[1], eqFVarId, nextId)
       IN  \E ok \in BOOLEAN :
               IF ~ok \/ ~r.ok
               THEN /\ propagate("injectionCore")
                    /\ UNCHANGED mctx
               ELSE IF r.solved
               THEN /\ returnNone
                    /\ assigned' = assigned \cup {1}
                    /\ UNCHANGED <<lctx, nextId, newHyps>>
               ELSE /\ newGoal(1, r.ctx)
                    /\ nextId' = nextId + r.numNewEqs
                    /\ newHyps' = newHyps \cup (nextId..(nextId + r.numNewEqs - 1))
                    /\ returnSome(1, subst0, r.numNewEqs)
    /\ UNCHANGED <<inputs, traces, loc>>

\* faulty variant: only the field equalities with different sides are counted
injection_injectionCore_resolved ==
    /\ pc = "injection_injectionCore"
    /\ called("injectionCore")
    /\ LET r == injectionCore(lctx[1], eqFVarId, nextId)
           open == {p \in DOMAIN r.ctx : r.ctx[p].id >= nextId
                                         /\ r.ctx[p].type.lhs # r.ctx[p].type.rhs}
       IN  \E ok \in BOOLEAN :
               IF ~ok \/ ~r.ok
               THEN /\ propagate("injectionCore")
                    /\ UNCHANGED mctx
               ELSE IF r.solved
               THEN /\ returnNone
                    /\ assigned' = assigned \cup {1}
                    /\ UNCHANGED <<lctx, nextId, newHyps>>
               ELSE /\ newGoal(1, r.ctx)
                    /\ nextId' = nextId + r.numNewEqs
                    /\ newHyps' = newHyps \cup (nextId..(nextId + r.numNewEqs - 1))
                    /\ returnSome(Len(lctx) + 1, subst0, Cardinality(open))
    /\ UNCHANGED <<inputs, traces, loc>>

\* faulty variant: numNewEqs is left at its default instead of the reported count
injection_injectionCore_default ==
    /\ pc = "injection_injectionCore"
    /\ called("injectionCore")
    /\ LET r == injectionCore(lctx[1], eqFVarId, nextId)
       IN  \E ok \in BOOLEAN :
               IF ~ok \/ ~r.ok
               THEN /\ propagate("injectionCore")
                    /\ UNCHANGED mctx
               ELSE IF r.solved
               THEN /\ returnNone
                    /\ assigned' = assigned \cup {1}
                    /\ UNCHANGED <<lctx, nextId, newHyps>>
               ELSE /\ newGoal(1, r.ctx)
                    /\ nextId' = nextId + r.numNewEqs
                    /\ newHyps' = newHyps \cup (nextId..(nextId + r.numNewEqs - 1))
                    /\ returnSome(Len(lctx) + 1, subst0, numNewEqs_default)
    /\ UNCHANGED <<inputs, traces, loc>>

\* faulty variant: a subgoal is answered like a solved goal, with none
injection_injectionCore_none ==
    /\ pc = "injection_injectionCore"
    /\ called("injectionCore")
    /\ LET r == injectionCore(lctx[1], eqFVarId, nextId)
       IN  \E ok \in BOOLEAN :
               IF ~ok \/ ~r.ok
               THEN /\ propagate("injectionCore")
                    /\ UNCHANGED mctx
               ELSE IF r.solved
               THEN /\ returnNone
                    /\ assigned' = assigned \cup {1}
                    /\ UNCHANGED <<lctx, nextId, newHyps>>
               ELSE /\ newGoal(1, r.ctx)
                    /\ nextId' = nextId + r.numNewEqs
                    /\ newHyps' = newHyps \cup (nextId..(nextId + r.numNewEqs - 1))
                    /\ returnNone
    /\ UNCHANGED <<inputs, traces, loc>>

\* faulty variant: a failure of injectionCore is reported with the type of the
\* hypothesis attached
injection_injectionCore_typed ==
    /\ pc = "injection_injectionCore"
    /\ called("injectionCore")
    /\ LET r == injectionCore(lctx[1], eqFVarId, nextId)
       IN  \E ok \in BOOLEAN :
               IF ~ok \/ ~r.ok
               THEN /\ pc' = "done"
                    /\ outcome' = "error"
                    /\ err' = [msg |-> "external", type |-> loc.eqDecl.type,
                               caseName |-> "", from |-> "injectionCore"]
                    /\ result' = result
                    /\ UNCHANGED mctx
               ELSE IF r.solved
               THEN /\ returnNone
                    /\ assigned' = assigned \cup {1}
                    /\ UNCHANGED <<lctx, nextId, newHyps>>
               ELSE /\ newGoal(1, r.ctx)
                    /\ nextId' = nextId + r.numNewEqs
                    /\ newHyps' = newHyps \cup (nextId..(nextId + r.numNewEqs - 1))
                    /\ returnSome(Len(lctx) + 1, subst0, r.numNewEqs)
    /\ UNCHANGED <<inputs, traces, loc>>

\* match (<- injectionCore mvarId eqFVarId) with
\* | solved => return none
\* | subgoal mvarId numNewEqs => return some { mvarId, numNewEqs, subst }
injection_injectionCore ==
    /\ pc = "injection_injectionCore"
    /\ called("injectionCore")
    /\ LET r == injectionCore(lctx[1], eqFVarId, nextId)
       IN  \E ok \in BOOLEAN :
               IF ~ok \/ ~r.ok
               THEN /\ propagate("injectionCore")
                    /\ UNCHANGED mctx
               ELSE IF r.solved
               THEN /\ returnNone
                    /\ assigned' = assigned \cup {1}
                    /\ UNCHANGED <<lctx, nextId, newHyps>>
               ELSE /\ newGoal(1, r.ctx)
                    /\ nextId' = nextId + r.numNewEqs
                    /\ newHyps' = newHyps \cup (nextId..(nextId + r.numNewEqs - 1))
                    /\ returnSome(Len(lctx) + 1, subst0, r.numNewEqs)
    /\ UNCHANGED <<inputs, traces, loc>>

\* let a' <- whnf a
injection_whnf_a ==
    /\ pc = "injection_whnf_a"
    /\ called("whnf")
    /\ \E ok \in BOOLEAN :
           IF ok
           THEN /\ loc' = [loc EXCEPT !.aw = whnf(loc.ai)]
                /\ goOn("injection_whnf_b")
           ELSE /\ propagate("whnf")
                /\ loc' = loc
    /\ UNCHANGED <<mctx, inputs, traces>>

\* let b' <- whnf b
injection_whnf_b ==
    /\ pc = "injection_whnf_b"
    /\ called("whnf")
    /\ \E ok \in BOOLEAN :
           IF ok
           THEN /\ loc' = [loc EXCEPT !.bw = whnf(loc.bi)]
                /\ goOn("injection_trace_a")
           ELSE /\ propagate("whnf")
                /\ loc' = loc
    /\ UNCHANGED <<mctx, inputs, traces>>

\* faulty variant: a failure to add the trace message ends the call
injection_trace_a_failing ==
    /\ pc = "injection_trace_a"
    /\ IF traceOn
       THEN /\ called("addTrace")
            /\ \E ok \in BOOLEAN :
                   IF ok
                   THEN /\ traces' = Append(traces, [tag |-> "a: ", from |-> loc.ai, to |-> loc.aw])
                        /\ goOn("injection_lambda2")
                   ELSE /\ propagate("addTrace")
                        /\ traces' = traces
       ELSE /\ UNCHANGED <<traces, calls>>
            /\ goOn("injection_lambda2")
    /\ UNCHANGED <<mctx, inputs, loc>>

\* trace[Meta.debug] "a: {a} ==> {a'}"
injection_trace_a ==
    /\ pc = "injection_trace_a"
    /\ IF traceOn
       THEN /\ traces' = Append(traces, [tag |-> "a: ", from |-> loc.ai, to |-> loc.aw])
            /\ called("addTrace")
       ELSE UNCHANGED <<traces, calls>>
    /\ goOn("injection_lambda2")
    /\ UNCHANGED <<mctx, inputs, loc>>

\* trace[Meta.debug] "b: {b} ==> {b'}"
injection_lambda2 ==
    /\ pc = "injection_lambda2"
    /\ IF traceOn
       THEN /\ traces' = Append(traces, [tag |-> "b: ", from |-> loc.bi, to |-> loc.bw])
            /\ called("addTrace")
       ELSE UNCHANGED <<traces, calls>>
    /\ goOn("injection_lambda1")
    /\ UNCHANGED <<mctx, inputs, loc>>

\* faulty variant: each reduced side is compared with the other original side
reduced_swapped(a, aw, b, bw) == ~(expr_eqv(aw, b) /\ expr_eqv(bw, a))

\* whether whnf reduced one of the two sides: a' != a || b' != b
reduced(a, aw, b, bw) == ~(expr_eqv(aw, a) /\ expr_eqv(bw, b))

\* faulty variant: the new equality is built from the sides before whnf
injection_lambda1_unreduced ==
    /\ pc = "injection_lambda1"
    /\ IF reduced(loc.ai, loc.aw, loc.bi, loc.bw)
       THEN /\ called("mkEq")
            /\ \E ok \in BOOLEAN :
                   IF ok
                   THEN /\ loc' = [loc EXCEPT !.type = mkEqType(loc.eqDecl.type.lty, loc.ai, loc.bi)]
                        /\ goOn("injection_assert")
                   ELSE /\ propagate("mkEq")
                        /\ loc' = loc
       ELSE /\ throwError("failed to solve equation", loc.eqDecl.type, caseName)
            /\ UNCHANGED <<loc, calls>>
    /\ UNCHANGED <<mctx, inputs, traces>>

\* if a' != a || b' != b then let aEqb' <- mkEq a' b' else throwError
injection_lambda1 ==
    /\ pc = "injection_lambda1"
    /\ IF reduced(loc.ai, loc.aw, loc.bi, loc.bw)
       THEN /\ called("mkEq")
            /\ \E ok \in BOOLEAN :
                   IF ok
                   THEN /\ loc' = [loc EXCEPT !.type = mkEqType(loc.eqDecl.type.lty, loc.aw, loc.bw)]
                        /\ goOn("injection_assert")
                   ELSE /\ propagate("mkEq")
                        /\ loc' = loc
       ELSE /\ throwError("failed to solve equation", loc.eqDecl.type, caseName)
            /\ UNCHANGED <<loc, calls>>
    /\ UNCHANGED <<mctx, inputs, traces>>

\* faulty variant: the new hypothesis is asserted under a name of its own
injection_assert_renamed ==
    /\ pc = "injection_assert"
    /\ called("assert")
    /\ \E ok \in BOOLEAN :
           IF ok
           THEN /\ newGoal(1, assertDecl(lctx[1], "this", loc.type, nextId))
                /\ nextId' = nextId + 1
                /\ newHyps' = newHyps \cup {nextId}
                /\ loc' = [loc EXCEPT !.mvarId = Len(lctx) + 1]
                /\ goOn("injection_clear")
           ELSE /\ propagate("assert")
                /\ UNCHANGED <<mctx, loc>>
    /\ UNCHANGED <<inputs, traces>>

\* let mvarId <- assert mvarId eqDecl.userName aEqb' prf
injection_assert ==
    /\ pc = "injection_assert"
    /\ called("assert")
    /\ \E ok \in BOOLEAN :
           IF ok
           THEN /\ newGoal(1, assertDecl(lctx[1], loc.eqDecl.userName, loc.type, nextId))
                /\ nextId' = nextId + 1
                /\ newHyps' = newHyps \cup {nextId}
                /\ loc' = [loc EXCEPT !.mvarId = Len(lctx) + 1]
                /\ goOn("injection_clear")
           ELSE /\ propagate("assert")
                /\ UNCHANGED <<mctx, loc>>
    /\ UNCHANGED <<inputs, traces>>

\* faulty variant: after the replacement the call classifies the hypothesis again
injection_clear_redispatch ==
    /\ pc = "injection_clear"
    /\ called("clear")
    /\ IF clear_ok(lctx[loc.mvarId], eqFVarId)
       THEN /\ newGoal(loc.mvarId, eraseDecl(lctx[loc.mvarId], eqFVarId))
            /\ goOn("classify")
       ELSE /\ propagate("clear")
            /\ UNCHANGED <<lctx, assigned>>
    /\ UNCHANGED <<nextId, newHyps, inputs, traces, loc>>

\* faulty variant: the goal of assert is returned, the original hypothesis kept
injection_clear_skipped ==
    /\ pc = "injection_clear"
    /\ called("clear")
    /\ returnSome(loc.mvarId, subst0, 1)
    /\ UNCHANGED <<mctx, inputs, traces, loc>>

\* let mvarId <- clear mvarId eqFVarId; return some { mvarId, subst, numNewEqs := 1 }
injection_clear ==
    /\ pc = "injection_clear"
    /\ called("clear")
    /\ IF clear_ok(lctx[loc.mvarId], eqFVarId)
       THEN /\ newGoal(loc.mvarId, eraseDecl(lctx[loc.mvarId], eqFVarId))
            /\ returnSome(Len(lctx) + 1, subst0, 1)
       ELSE /\ propagate("clear")
            /\ UNCHANGED <<lctx, assigned>>
    /\ UNCHANGED <<nextId, newHyps, inputs, traces, loc>>

----------------------------------------------------------------------------
(* heqToEq' (l___private_Lean_Meta_Tactic_UnifyEq_0__Lean_Meta_heqToEq_x27) *)

\* faulty variant: the proof is built without comparing the two types
heqToEq_mkEqOfHEq_unchecked ==
    /\ pc = "heqToEq_mkEqOfHEq"
    /\ called("mkEqOfHEq")
    /\ \E ok \in BOOLEAN :
           IF ok
           THEN goOn("heqToEq_inferType")
           ELSE propagate("mkEqOfHEq")
    /\ UNCHANGED <<mctx, inputs, traces, loc>>

\* let prf <- mkEqOfHEq (mkFVar eqDecl.fvarId)
heqToEq_mkEqOfHEq ==
    /\ pc = "heqToEq_mkEqOfHEq"
    /\ called("mkEqOfHEq")
    /\ \E ok \in BOOLEAN :
           IF ok /\ mkEqOfHEq_ok(loc.eqDecl.type)
           THEN goOn("heqToEq_inferType")
           ELSE propagate("mkEqOfHEq")
    /\ UNCHANGED <<mctx, inputs, traces, loc>>

\* inferType prf
heqToEq_inferType ==
    /\ pc = "heqToEq_inferType"
    /\ called("inferType")
    /\ \E ok \in BOOLEAN :
           IF ok
           THEN /\ loc' = [loc EXCEPT !.type = eqOfHEqType(loc.eqDecl.type)]
                /\ goOn("heqToEq_whnf")
           ELSE /\ propagate("inferType")
                /\ loc' = loc
    /\ UNCHANGED <<mctx, inputs, traces>>

\* let aEqb <- whnf (<- inferType prf)
heqToEq_whnf ==
    /\ pc = "heqToEq_whnf"
    /\ called("whnf")
    /\ \E ok \in BOOLEAN :
           IF ok THEN goOn("heqToEq_assert") ELSE propagate("whnf")
    /\ UNCHANGED <<mctx, inputs, traces, loc>>

\* faulty variant: a failed assert leaves the goal assigned
heqToEq_assert_leaky ==
    /\ pc = "heqToEq_assert"
    /\ called("assert")
    /\ \E ok \in BOOLEAN :
           IF ok
           THEN /\ newGoal(1, assertDecl(lctx[1], loc.eqDecl.userName, loc.type, nextId))
                /\ nextId' = nextId + 1
                /\ newHyps' = newHyps \cup {nextId}
                /\ loc' = [loc EXCEPT !.mvarId = Len(lctx) + 1]
                /\ goOn("heqToEq_clear")
           ELSE /\ propagate("assert")
                /\ newGoal(1, lctx[1])
                /\ UNCHANGED <<nextId, newHyps, loc>>
    /\ UNCHANGED <<inputs, traces>>

\* let mvarId <- assert mvarId eqDecl.userName aEqb prf
heqToEq_assert ==
    /\ pc = "heqToEq_assert"
    /\ called("assert")
    /\ \E ok \in BOOLEAN :
           IF ok
           THEN /\ newGoal(1, assertDecl(lctx[1], loc.eqDecl.userName, loc.type, nextId))
                /\ nextId' = nextId + 1
                /\ newHyps' = newHyps \cup {nextId}
                /\ loc' = [loc EXCEPT !.mvarId = Len(lctx) + 1]
                /\ goOn("heqToEq_clear")
           ELSE /\ propagate("assert")
                /\ UNCHANGED <<mctx, loc>>
    /\ UNCHANGED <<inputs, traces>>

\* faulty variant: the converted hypothesis is tested with isDefEq and, its
\* sides being defeq, not counted
heqToEq_clear_tested ==
    /\ pc = "heqToEq_clear"
    /\ calls' = calls \o <<"clear", "isExprDefEq">>
    /\ IF clear_ok(lctx[loc.mvarId], eqFVarId)
       THEN /\ newGoal(loc.mvarId, eraseDecl(lctx[loc.mvarId], eqFVarId))
            /\ returnSome(Len(lctx) + 1, subst0,
                          IF isExprDefEq(loc.type.lhs, loc.type.rhs) THEN 0 ELSE 1)
       ELSE /\ propagate("clear")
            /\ UNCHANGED <<lctx, assigned>>
    /\ UNCHANGED <<nextId, newHyps, inputs, traces, loc>>

\* faulty variant: the goal of assert is returned, the heterogeneous hypothesis kept
heqToEq_clear_skipped ==
    /\ pc = "heqToEq_clear"
    /\ called("clear")
    /\ returnSome(loc.mvarId, subst0, 1)
    /\ UNCHANGED <<mctx, inputs, traces, loc>>

\* faulty variant: the converted hypothesis is not counted, numNewEqs stays 0
heqToEq_clear_default ==
    /\ pc = "heqToEq_clear"
    /\ called("clear")
    /\ IF clear_ok(lctx[loc.mvarId], eqFVarId)
       THEN /\ newGoal(loc.mvarId, eraseDecl(lctx[loc.mvarId], eqFVarId))
            /\ returnSome(Len(lctx) + 1, subst0, numNewEqs_default)
       ELSE /\ propagate("clear")
            /\ UNCHANGED <<lctx, assigned>>
    /\ UNCHANGED <<nextId, newHyps, inputs, traces, loc>>

\* clear mvarId eqDecl.fvarId; back in unifyEq?:
\* return some { mvarId, subst, numNewEqs := 1 }
heqToEq_clear ==
    /\ pc = "heqToEq_clear"
    /\ called("clear")
    /\ IF clear_ok(lctx[loc.mvarId], eqFVarId)
       THEN /\ newGoal(loc.mvarId, eraseDecl(lctx[loc.mvarId], eqFVarId))
            /\ returnSome(Len(lctx) + 1, subst0, 1)
       ELSE /\ propagate("clear")
            /\ UNCHANGED <<lctx, assigned>>
    /\ UNCHANGED <<nextId, newHyps, inputs, traces, loc>>

----------------------------------------------------------------------------

Next ==
    \/ unifyEq_getLocalDecl
    \/ unifyEq_classify
    \/ unifyEq_match
    \/ unifyEq_isDefEq
    \/ unifyEq_clear
    \/ substEq_substCore
    \/ substEq_isDefEq
    \/ substEq_clear
    \/ substEq_acyclic
    \/ injection_isConstructorApp
    \/ injection_injectionCore
    \/ injection_whnf_a
    \/ injection_whnf_b
    \/ injection_trace_a
    \/ injection_lambda2
    \/ injection_lambda1
    \/ injection_assert
    \/ injection_clear
    \/ heqToEq_mkEqOfHEq
    \/ heqToEq_inferType
    \/ heqToEq_whnf
    \/ heqToEq_assert
    \/ heqToEq_clear

Spec == Init /\ [][Next]_vars

\* the call is sequential code and every external call returns: a step that
\* can be taken is taken.  The substitution and the case name passed in do
\* not bear on the control flow and are fixed here.
FairInit == Init /\ subst0 = emptySubst /\ caseName = "alt"

FairSpec == FairInit /\ [][Next]_vars /\ WF_vars(Next)

----------------------------------------------------------------------------
(* Properties of a call.  They speak of the input context lctx[1], of the  *)
(* hypothesis found there under eqFVarId and of the returned context.      *)

ctx0 == lctx[1]

hasHyp == contains(ctx0, eqFVarId)

hyp == findDecl(ctx0, eqFVarId)

hypA == instantiateMVars(hyp.type.lhs)

hypB == instantiateMVars(hyp.type.rhs)

resCtx == lctx[result.mvarId]

lastCall == IF calls = <<>> THEN "" ELSE calls[Len(calls)]

externalFailure == outcome = "error" /\ err.msg = "external"

contextUntouched == Len(lctx) = 1 /\ assigned = {}

\* the declarations of the returned context that the input context lacks
addedDecls == {p \in DOMAIN resCtx : resCtx[p].id \notin ctxIds(ctx0)}

\* the hypotheses of the returned context made by assert or injectionCore
introducedEqs == {p \in DOMAIN resCtx : resCtx[p].id \in newHyps /\ resCtx[p].type.k = "Eq"}

\* C1 -- the hypothesis is a homogeneous equality of two distinct local variables
C1_TwoVariables ==
    /\ hasHyp
    /\ hyp.type.k = "Eq"
    /\ isFVar(hypA) /\ isFVar(hypB)
    /\ hypA.id # hypB.id

\* C1: for a homogeneous equality between two distinct local variables, in
\* either orientation, a call that returns a result returns a context without
\* the variable of the larger declaration index and with the variable of the
\* smaller one.
C1_LaterVariableEliminated ==
    (outcome = "some" /\ C1_TwoVariables) =>
        LET aLater == LocalDecl_index(ctx0, hypA.id) > LocalDecl_index(ctx0, hypB.id)
            later == IF aLater THEN hypA.id ELSE hypB.id
            earlier == IF aLater THEN hypB.id ELSE hypA.id
        IN  ~contains(resCtx, later) /\ contains(resCtx, earlier)

\* C1 happens: x2 = x1, the left side being the later variable, was resolved
C1_Witness ==
    /\ outcome = "some"
    /\ C1_TwoVariables
    /\ LocalDecl_index(ctx0, hypA.id) > LocalDecl_index(ctx0, hypB.id)
    /\ lastCall = "substCore"

\* C2: after a call that substituted a variable away, every declaration of the
\* returned context refers only to declarations that are present with a
\* strictly smaller index; nothing refers to the eliminated variable or to the
\* cleared hypothesis.
C2_NoDanglingReference ==
    (outcome = "some" /\ lastCall = "substCore") =>
        /\ wellFormed(resCtx)
        /\ ~contains(resCtx, eqFVarId)
        /\ \E v \in 1..MaxVars : ~contains(resCtx, v)
        /\ \A p \in DOMAIN resCtx :
               typeFVars(resCtx[p].type) \subseteq ctxIds(resCtx) \ {eqFVarId}

\* C2 happens: a substitution whose variable had a dependent declaration,
\* which is back in the returned context under a fresh id
C2_Witness ==
    /\ outcome = "some"
    /\ lastCall = "substCore"
    /\ addedDecls # {}

\* C3 -- the type of the hypothesis is neither HEq nor a 3-argument Eq
C3_NotEquality == hasHyp /\ hyp.type.k \notin {"Eq", "HEq"}

\* C3: if the hypothesis type is neither a heterogeneous equality nor an Eq
\* application of arity 3, the call makes no assert, clear, substitution or
\* injection, leaves the metavariable context as it was and fails with
\* "equality expected" carrying the hypothesis type.
C3_EqualityExpected ==
    C3_NotEquality =>
        /\ contextUntouched
        /\ \A i \in DOMAIN calls : calls[i] = "getLocalDecl"
        /\ pc = "done" =>
               /\ outcome = "error"
               /\ err.msg = "equality expected"
               /\ err.type = hyp.type

\* C3 happens: a call on a hypothesis that is no equality has ended
C3_Witness == C3_NotEquality /\ pc = "done" /\ outcome = "error"

\* C4 -- the hypothesis is heterogeneous and its two sorts are defeq
C4_HEqDefEqSorts ==
    /\ hasHyp
    /\ hyp.type.k = "HEq"
    /\ sortNormalForm(hyp.type.lty) = sortNormalForm(hyp.type.rty)

\* C4: for a heterogeneous hypothesis whose two types are defeq, a call that
\* returns a result returns a context with one new homogeneous equality under
\* the user name of the original, without the original hypothesis id, and with
\* as many declarations as the input context.
C4_HEqConverted ==
    (outcome = "some" /\ C4_HEqDefEqSorts) =>
        /\ Cardinality(addedDecls) = 1
        /\ \A p \in addedDecls :
               /\ resCtx[p].type = mkEqType(hyp.type.lty, hyp.type.lhs, hyp.type.rhs)
               /\ resCtx[p].userName = hyp.userName
        /\ ~contains(resCtx, eqFVarId)
        /\ Len(resCtx) = Len(ctx0)

\* C4 happens: a HEq between terms of sort T and of its alias Tr was converted
C4_Witness ==
    /\ outcome = "some"
    /\ C4_HEqDefEqSorts
    /\ hyp.type.lty # hyp.type.rty

\* C5 -- the two sides are the same expression, of the same sort
C5_IdenticalSides ==
    /\ hasHyp
    /\ hyp.type.k \in {"Eq", "HEq"}
    /\ hyp.type.lhs = hyp.type.rhs
    /\ hyp.type.lty = hyp.type.rty

\* the call returned numNewEqs = 0 and a context that lacks the hypothesis
\* and nothing else
C5_Retired ==
    /\ outcome = "some"
    /\ result.numNewEqs = 0
    /\ resCtx = eraseDecl(ctx0, eqFVarId)
    /\ Len(resCtx) = Len(ctx0) - 1

C6_SameConstructor ==
    /\ hasHyp
    /\ hyp.type.k = "Eq"
    /\ hypA.k = "ctor" /\ hypB.k = "ctor"
    /\ hypA.c = hypB.c
    /\ numFields(hypA.c) = 2
    /\ Len(hypA.args) = 2 /\ Len(hypB.args) = 2
    /\ normalForm(hypA) # normalForm(hypB)

\* the returned context has exactly the two field equalities as new declarations
C6_TwoFieldHyps ==
    /\ Cardinality(addedDecls) = 2
    /\ \A k \in 1..2 : \E p \in addedDecls :
           resCtx[p].type = mkEqType(hyp.type.lty, hypA.args[k], hypB.args[k])
    /\ ~contains(resCtx, eqFVarId)

\* the fields whose two sides are not the same expression
C6_NonReflexiveFields == {k \in 1..2 : hypA.args[k] # hypB.args[k]}

\* C6 as stated: for C a1 a2 = C b1 b2, not defeq, a returned result has
\* exactly 2 field equality hypotheses and numNewEqs is the number of them
\* that trivial reflexivity does not resolve.
C6_Original ==
    (outcome = "some" /\ C6_SameConstructor) =>
        /\ C6_TwoFieldHyps
        /\ result.numNewEqs = Cardinality(C6_NonReflexiveFields)

\* C6 amended: for C a1 a2 = C b1 b2, not defeq, a returned result has exactly
\* 2 field equality hypotheses and numNewEqs is the count injectionCore
\* reports, 2, whether or not a field equality is trivially reflexive.
C6_InjectionCount ==
    (outcome = "some" /\ C6_SameConstructor) =>
        /\ C6_TwoFieldHyps
        /\ result.numNewEqs = 2
        /\ lastCall = "injectionCore"

\* C6 happens: an injection whose first field equality is reflexive
C6_Witness ==
    /\ outcome = "some"
    /\ C6_SameConstructor
    /\ Cardinality(C6_NonReflexiveFields) = 1

\* C7 -- homogeneous, no side a variable, not both constructor applications,
\* the sides not defeq
C7_Unsolvable ==
    /\ hasHyp
    /\ hyp.type.k = "Eq"
    /\ ~isFVar(hypA) /\ ~isFVar(hypB)
    /\ ~(isConstructorApp(hypA) /\ isConstructorApp(hypB))
    /\ normalForm(hypA) # normalForm(hypB)

\* the call failed with "failed to solve equation" and the hypothesis type
C7_FailedToSolve ==
    /\ outcome = "error"
    /\ err.msg = "failed to solve equation"
    /\ err.type = hyp.type
    /\ contextUntouched

\* C7 as stated: such a call fails with "failed to solve equation" carrying
\* the hypothesis type and leaves the context unchanged.  (Failures of the
\* external calls are left aside.)
C7_Original ==
    (pc = "done" /\ C7_Unsolvable /\ ~externalFailure) => C7_FailedToSolve

\* C7 amended: if moreover whnf leaves both sides as they are, the call fails
\* with "failed to solve equation" carrying the hypothesis type, unless an
\* external call fails, and the context is unchanged throughout.
C7_UnsolvableEquation ==
    (C7_Unsolvable /\ whnf(hypA) = hypA /\ whnf(hypB) = hypB) =>
        /\ contextUntouched
        /\ (pc = "done" /\ ~externalFailure) => C7_FailedToSolve

\* C7 happens: A = B, or a constant against a constructor application, failed
C7_Witness ==
    /\ pc = "done"
    /\ C7_Unsolvable
    /\ whnf(hypA) = hypA /\ whnf(hypB) = hypB
    /\ outcome = "error"
    /\ err.from = "unifyEq"

\* C8 as stated: a call that ends without an error returns a result.
C8_Original == (pc = "done" /\ outcome # "error") => outcome = "some"

\* C8 amended: a call that ends without an error returns either a result,
\* made of a goal of the metavariable context and a count, or none; none is
\* returned exactly after acyclic answered true and after injectionCore
\* solved the goal, the two sides applying different constructors.
C8_ResultOrNone ==
    pc = "done" =>
        /\ outcome \in {"some", "none", "error"}
        /\ outcome = "some" =>
               /\ result.mvarId \in 2..Len(lctx)
               /\ result.numNewEqs \in 0..2
        /\ outcome = "none" =>
               /\ result = NoResult
               /\ \/ lastCall = "acyclic"
                  \/ lastCall = "injectionCore" /\ hypA.c # hypB.c

\* C8 happens: the call ended with none, injectionCore having solved the goal
C8_Witness == pc = "done" /\ outcome = "none" /\ lastCall = "injectionCore"

\* whether the call ended by substCore or by clearing a defeq hypothesis
C9_Retired ==
    \/ lastCall = "substCore"
    \/ lastCall = "clear" /\ newHyps = {}

\* C9: in every returned result numNewEqs is the number of equality
\* hypotheses of the returned context that this call introduced; it is 0, the
\* default, whenever the hypothesis was retired by substitution or by a
\* defeq clear.
C9_CountsIntroducedEqs ==
    outcome = "some" =>
        /\ result.numNewEqs = Cardinality(introducedEqs)
        /\ C9_Retired => result.numNewEqs = numNewEqs_default

\* C9 happens: a converted heterogeneous hypothesis is counted once
C9_Witness ==
    /\ outcome = "some"
    /\ hyp.type.k = "HEq"
    /\ Cardinality(introducedEqs) = 1

\* C10: after a call that returns a result, the id of the original
\* hypothesis is not in the returned context.
C10_HypothesisGone == outcome = "some" => ~contains(resCtx, eqFVarId)

\* C10 happens: a side was reduced, the reduced equality asserted and the
\* original hypothesis cleared
C10_Witness ==
    /\ outcome = "some"
    /\ hyp.type.k = "Eq"
    /\ lastCall = "clear"
    /\ result.numNewEqs = 1

\* the call failed in the clear that follows a successful assert
C11_ClearFailedAfterAssert == outcome = "error" /\ err.from = "clear" /\ newHyps # {}

C12_Count(f) == Cardinality({i \in DOMAIN calls : calls[i] = f})

\* substCore was called and failed: the call went on after it
C12_SubstCoreFailed ==
    /\ C12_Count("substCore") > 0
    /\ pc = "substEq_isDefEq" \/ lastCall # "substCore"

\* C12 as stated: the failure of any external call, substCore included, ends
\* the call with that same error, no external call following it.
C12_Original ==
    /\ externalFailure => (pc = "done" /\ err.from = lastCall)
    /\ C12_SubstCoreFailed => (outcome = "error" /\ err.from = "substCore")

\* C12 amended: the failure of an external call other than substCore ends
\* the call with that same error, no external call following it and none
\* made a second time; a failure of substCore is caught, not reported, and
\* the call goes on with isDefEq.
C12_ReportedOnce ==
    /\ externalFailure =>
           /\ pc = "done"
           /\ err.from = lastCall
           /\ err = [msg |-> "external", type |-> NoType, caseName |-> "", from |-> lastCall]
           /\ err.from # "substCore"
    /\ \A f \in {"isExprDefEq", "substCore", "clear", "assert", "mkEq", "mkEqOfHEq",
                 "inferType", "injectionCore", "acyclic"} : C12_Count(f) <= 1
    /\ C12_Count("whnf") <= 2
    /\ C12_SubstCoreFailed =>
           \A i \in DOMAIN calls :
               (calls[i] = "substCore" /\ i < Len(calls)) => calls[i + 1] = "isExprDefEq"

\* C12 happens: after a caught failure of substCore, isDefEq failed and its
\* error ended the call
C12_Witness == C12_SubstCoreFailed /\ externalFailure /\ err.from = "isExprDefEq"

\* the calls by which the sides of a homogeneous hypothesis are dispatched
C13_Dispatched ==
    \E i \in DOMAIN calls : calls[i] \in {"instantiateMVars", "substCore", "isExprDefEq", "injectionCore"}

\* C13 as stated: for a heterogeneous hypothesis with defeq types, a call
\* that returns a result has, after the conversion, classified and
\* dispatched the homogeneous hypothesis.
C13_Original ==
    (pc = "done" /\ outcome = "some" /\ C4_HEqDefEqSorts) => C13_Dispatched

\* C13 amended: for a heterogeneous hypothesis with defeq types the call
\* converts it with heqToEq' and returns at once: the sides are never
\* dispatched, the hypothesis is looked up once, and a returned result has
\* numNewEqs = 1 and holds the converted hypothesis, even one that
\* substitution or a defeq clear would retire.
C13_ConvertedNotDispatched ==
    C4_HEqDefEqSorts =>
        /\ ~C13_Dispatched
        /\ C12_Count("getLocalDecl") <= 1
        /\ (pc = "done" /\ ~externalFailure) => outcome = "some"
        /\ outcome = "some" =>
               /\ lastCall = "clear"
               /\ result.numNewEqs = 1
               /\ \E p \in DOMAIN resCtx :
                      /\ resCtx[p].id \in newHyps
                      /\ resCtx[p].type.k = "Eq"
                      /\ resCtx[p].type.lhs = hyp.type.lhs
                      /\ resCtx[p].type.rhs = hyp.type.rhs

\* C13 happens: HEq x t was converted to x = t, which is returned as it is
C13_Witness ==
    /\ pc = "done"
    /\ outcome = "some"
    /\ C4_HEqDefEqSorts
    /\ isFVar(hyp.type.lhs)
    /\ hyp.type.lhs # hyp.type.rhs

\* the field equalities of the returned context that a further pass of the
\* dispatcher would not retire at once: their sides are not defeq and
\* neither side is a variable
C14_Unresolved ==
    {p \in introducedEqs :
        /\ normalForm(resCtx[p].type.lhs) # normalForm(resCtx[p].type.rhs)
        /\ ~isFVar(resCtx[p].type.lhs)
        /\ ~isFVar(resCtx[p].type.rhs)}

\* C14 as stated: after the decomposition the field equalities are passed
\* back to the dispatcher within the call, and numNewEqs counts those of
\* them it did not resolve.
C14_Original ==
    (pc = "done" /\ outcome = "some" /\ C12_Count("injectionCore") > 0) =>
        /\ lastCall # "injectionCore"
        /\ result.numNewEqs = Cardinality(C14_Unresolved)

\* C14 amended: the decomposition is the last step of the call: no field
\* equality is looked up or dispatched, and numNewEqs is the number of field
\* equalities produced, all of which are in the returned context.
C14_FieldsNotDispatched ==
    C12_Count("injectionCore") > 0 =>
        /\ pc = "done"
        /\ lastCall = "injectionCore"
        /\ C12_Count("getLocalDecl") = 1
        /\ outcome = "some" =>
               /\ result.numNewEqs = Cardinality(introducedEqs)
               /\ result.numNewEqs = Len(hypA.args)
               /\ \A k \in 1..Len(hypA.args) : \E p \in introducedEqs :
                      /\ resCtx[p].type.lhs = hypA.args[k]
                      /\ resCtx[p].type.rhs = hypB.args[k]

\* C14 happens: C x A = C y A is decomposed into x = y and A = A, both of
\* which a further pass would retire, and both are counted
C14_Witness ==
    /\ outcome = "some"
    /\ lastCall = "injectionCore"
    /\ C14_Unresolved = {}
    /\ result.numNewEqs = 2

\* C15 -- homogeneous, the sides not defeq; as they stand neither side is a
\* variable and they are not both constructor applications, but after whnf a
\* side is a variable or both are constructor applications
C15_ShapeOnlyAfterWhnf ==
    /\ hasHyp
    /\ hyp.type.k = "Eq"
    /\ ~isFVar(hypA) /\ ~isFVar(hypB)
    /\ ~(isConstructorApp(hypA) /\ isConstructorApp(hypB))
    /\ normalForm(hypA) # normalForm(hypB)
    /\ \/ isFVar(whnf(hypA))
       \/ isFVar(whnf(hypB))
       \/ isConstructorApp(whnf(hypA)) /\ isConstructorApp(whnf(hypB))

\* C15 as stated: such a hypothesis is routed, in the call that reduces it,
\* to the substituter or to the injector.
C15_Original ==
    (pc = "done" /\ outcome = "some" /\ C15_ShapeOnlyAfterWhnf) =>
        (C12_Count("substCore") > 0 \/ C12_Count("injectionCore") > 0)

\* C15 amended: the sides are classified as instantiateMVars leaves them;
\* whnf is taken only in injection, and a hypothesis whose shape shows only
\* after whnf is neither substituted nor decomposed in that call: the
\* equality of the reduced sides is asserted, the hypothesis cleared and
\* numNewEqs = 1 returned.
C15_ReducedNotRouted ==
    C15_ShapeOnlyAfterWhnf =>
        /\ C12_Count("substCore") = 0
        /\ C12_Count("injectionCore") = 0
        /\ (pc = "done" /\ ~externalFailure) => outcome = "some"
        /\ outcome = "some" =>
               /\ result.numNewEqs = 1
               /\ ~contains(resCtx, eqFVarId)
               /\ \E p \in introducedEqs :
                      resCtx[p].type = mkEqType(hyp.type.lty, whnf(hypA), whnf(hypB))

\* C15 happens: the left side reduces to a variable, and the equality of the
\* variable with the right side is handed back
C15_Witness ==
    /\ outcome = "some"
    /\ C15_ShapeOnlyAfterWhnf
    /\ isFVar(whnf(hypA))

\* C16 -- the hypothesis is heterogeneous and its two types are not defeq
C16_HEqOtherSorts ==
    /\ hasHyp
    /\ hyp.type.k = "HEq"
    /\ sortNormalForm(hyp.type.lty) # sortNormalForm(hyp.type.rty)

\* C16 as stated: for a heterogeneous hypothesis whose types are not defeq
\* the call tries no conversion and no injection and hands the hypothesis to
\* substEq.
C16_Original ==
    (pc = "done" /\ C16_HEqOtherSorts) =>
        /\ C12_Count("mkEqOfHEq") = 0
        /\ C12_Count("injectionCore") = 0
        /\ C12_Count("substCore") = 1

\* C16 amended: for a heterogeneous hypothesis whose types are not defeq the
\* call tries the conversion all the same: mkEqOfHEq is called and fails,
\* its error ends the call, nothing is substituted or decomposed and the
\* metavariable context is as it was.
C16_ConversionFails ==
    C16_HEqOtherSorts =>
        /\ \A i \in DOMAIN calls : calls[i] \in {"getLocalDecl", "mkEqOfHEq"}
        /\ contextUntouched
        /\ pc = "done" =>
               /\ outcome = "error"
               /\ err.from = "mkEqOfHEq"
               /\ calls = <<"getLocalDecl", "mkEqOfHEq">>

\* C16 happens: a call on HEq between terms of the sorts T and U has ended
C16_Witness == pc = "done" /\ C16_HEqOtherSorts /\ lastCall = "mkEqOfHEq"

\* C17 -- in substEq the attempt of substCore failed and isDefEq answered
\* false
C17_NeitherApplies ==
    /\ C12_SubstCoreFailed
    /\ pc \in {"substEq_acyclic", "done"}
    /\ ~isExprDefEq(loc.a, loc.b)
    /\ ~(externalFailure /\ err.from = "isExprDefEq")

\* C17 as stated: in that case the call fails with "failed to solve
\* equation" and the hypothesis type, the context unchanged.  (Failures of
\* the external calls are left aside.)
C17_Original ==
    (pc = "done" /\ C17_NeitherApplies /\ ~externalFailure) =>
        /\ outcome = "error"
        /\ err.msg = "failed to solve equation"
        /\ err.type = hyp.type
        /\ contextUntouched

\* C17 amended: in that case acyclic is asked; the call returns none when it
\* answers true and otherwise fails with "failed to solve equation" and the
\* hypothesis type, no case being named; the context is unchanged either way.
C17_UnsolvableUnlessCyclic ==
    C17_NeitherApplies =>
        /\ contextUntouched
        /\ pc = "done" =>
               /\ lastCall = "acyclic"
               /\ \/ outcome = "none"
                  \/ externalFailure /\ err.from = "acyclic"
                  \/ /\ outcome = "error"
                     /\ err = [msg |-> "failed to solve equation", type |-> hyp.type,
                               caseName |-> "", from |-> "unifyEq"]

\* C17 happens: x = C x A under a case name, acyclic having answered false
C17_Witness ==
    /\ pc = "done"
    /\ C17_NeitherApplies
    /\ err.msg = "failed to solve equation"
    /\ caseName # ""

\* C18: when the attempt of substCore fails, the isDefEq fallback, the
\* acyclic check and any later error find the metavariable context as it
\* was when substEq started; a clear that follows acts on the input goal and
\* the substitution returned is the one passed in.
C18_AttemptRolledBack ==
    C12_SubstCoreFailed =>
        /\ (pc # "done" \/ outcome # "some") =>
               (contextUntouched /\ nextId = 40 /\ newHyps = {})
        /\ outcome = "some" =>
               /\ Len(lctx) = 2
               /\ assigned = {1}
               /\ resCtx = eraseDecl(ctx0, eqFVarId)
               /\ result.subst = subst0

\* C18 happens: substCore could not eliminate x from r = x, r reducing to x,
\* and the hypothesis was then cleared as a defeq one
C18_Witness ==
    /\ C12_SubstCoreFailed
    /\ outcome = "some"
    /\ hyp.type.lhs # hyp.type.rhs

\* C19: acyclic is called at most once in a call, and only as the last step
\* of substEq, after substCore failed and isDefEq answered false; the call
\* then ends with none, no error set and the hypothesis still in place, or
\* with the "failed to solve equation" error (or with acyclic's own error).
C19_AcyclicLastResort ==
    /\ C12_Count("acyclic") <= 1
    /\ \A i \in DOMAIN calls :
           calls[i] = "acyclic" =>
               /\ i = Len(calls)
               /\ i > 2
               /\ calls[i - 1] = "isExprDefEq"
               /\ calls[i - 2] = "substCore"
               /\ ~substCore(ctx0, eqFVarId, loc.symm, subst0, 40).ok
               /\ ~isExprDefEq(loc.a, loc.b)
    /\ lastCall = "acyclic" =>
           /\ pc = "done"
           /\ contextUntouched
           /\ outcome \in {"none", "error"}
           /\ outcome = "none" => (err = NoError /\ result = NoResult /\ contains(lctx[1], eqFVarId))
           /\ (outcome = "error" /\ ~externalFailure) => err.msg = "failed to solve equation"

\* C19 happens: acyclic answered true and the call returned none
C19_Witness == pc = "done" /\ outcome = "none" /\ lastCall = "acyclic" /\ err = NoError

\* C20 -- homogeneous, no side a variable, the sides not defeq and both
\* constructor applications
C20_BothConstructors ==
    /\ hasHyp
    /\ hyp.type.k = "Eq"
    /\ ~isFVar(hypA) /\ ~isFVar(hypB)
    /\ isConstructorApp(hypA) /\ isConstructorApp(hypB)
    /\ normalForm(hypA) # normalForm(hypB)

\* C20: in that case, isDefEq having answered, injectionCore is called
\* exactly once and is the last call; if it reports the goal solved the call
\* returns none, and if it reports a subgoal the call returns that subgoal's
\* context, the count it reports and the substitution passed in; its error
\* is the call's error.
C20_InjectionCoreOnce ==
    (pc = "done" /\ C20_BothConstructors /\ ~(externalFailure /\ err.from = "isExprDefEq")) =>
        LET r == injectionCore(ctx0, eqFVarId, 40)
        IN  /\ C12_Count("injectionCore") = 1
            /\ lastCall = "injectionCore"
            /\ outcome = "none" => (r.ok /\ r.solved /\ result = NoResult)
            /\ outcome = "some" =>
                   /\ r.ok /\ ~r.solved
                   /\ result.mvarId = Len(lctx)
                   /\ resCtx = r.ctx
                   /\ result.numNewEqs = r.numNewEqs
                   /\ result.subst = subst0
            /\ outcome = "error" => (externalFailure /\ err.from = "injectionCore")

\* C20 happens: a subgoal of injectionCore is returned with the substitution
\* the caller passed in
C20_Witness ==
    /\ pc = "done"
    /\ C20_BothConstructors
    /\ outcome = "some"
    /\ result.subst # emptySubst

\* C21 -- as C7, and whnf changes at least one side
C21_Reducible == C7_Unsolvable /\ (whnf(hypA) # hypA \/ whnf(hypB) # hypB)

\* C21: for a homogeneous hypothesis with no variable side, not defeq, not
\* both constructor applications, whose sides whnf changes, a call in which
\* no external call fails asserts the equality of the reduced sides under
\* the user name of the hypothesis, then clears the hypothesis and returns
\* numNewEqs = 1, the context keeping its size; "failed to solve equation"
\* is raised in the injection branch only when whnf changes neither side.
C21_ReducedEqualityReplaces ==
    /\ C21_Reducible =>
           /\ (pc = "done" /\ ~externalFailure) => outcome = "some"
           /\ outcome = "some" =>
                  /\ result.numNewEqs = 1
                  /\ Len(resCtx) = Len(ctx0)
                  /\ ~contains(resCtx, eqFVarId)
                  /\ Cardinality(addedDecls) = 1
                  /\ \A p \in addedDecls :
                         /\ resCtx[p].type = mkEqType(hyp.type.lty, whnf(hypA), whnf(hypB))
                         /\ resCtx[p].userName = hyp.userName
                  /\ \E i \in DOMAIN calls :
                         /\ calls[i] = "assert"
                         /\ i < Len(calls)
                         /\ calls[Len(calls)] = "clear"
    /\ (C7_Unsolvable /\ outcome = "error" /\ err.msg = "failed to solve equation") =>
           (whnf(hypA) = hypA /\ whnf(hypB) = hypB)

\* C21 happens: the right side was reduced and the equality replaced
C21_Witness ==
    /\ outcome = "some"
    /\ C21_Reducible
    /\ whnf(hypB) # hypB
    /\ whnf(hypA) = hypA

\* C22: for every heterogeneous hypothesis, the call makes no call of
\* substCore, isDefEq or injectionCore, never returns none, and a returned
\* result has numNewEqs = 1, also when the two sides are the same expression.
C22_HEqCountsOne ==
    (hasHyp /\ hyp.type.k = "HEq") =>
        /\ C12_Count("substCore") = 0
        /\ C12_Count("isExprDefEq") = 0
        /\ C12_Count("injectionCore") = 0
        /\ outcome # "none"
        /\ outcome = "some" => result.numNewEqs = 1

\* C22 happens: HEq A A was converted and is reported as one new equation
C22_Witness ==
    /\ outcome = "some"
    /\ hyp.type.k = "HEq"
    /\ hyp.type.lhs = hyp.type.rhs
    /\ result.numNewEqs = 1

\* C23: when the attempt of substCore succeeds, the call ends there: the
\* result has numNewEqs = 0, the goal and the substitution that substCore
\* returned, the hypothesis is not in the returned context, and neither
\* isDefEq nor acyclic was called.
C23_SubstCoreCommitted ==
    C12_Count("substCore") > 0 =>
        LET r == substCore(ctx0, eqFVarId, loc.symm, subst0, 40)
        IN  r.ok =>
                /\ pc = "done"
                /\ outcome = "some"
                /\ lastCall = "substCore"
                /\ result.numNewEqs = numNewEqs_default
                /\ result.mvarId = Len(lctx)
                /\ resCtx = r.ctx
                /\ result.subst = r.subst
                /\ ~contains(resCtx, eqFVarId)
                /\ C12_Count("isExprDefEq") = 0
                /\ C12_Count("acyclic") = 0

\* C23 happens: a substitution extended the substitution passed in
C23_Witness ==
    /\ outcome = "some"
    /\ lastCall = "substCore"
    /\ subst0 # emptySubst
    /\ result.subst # subst0

\* C24 -- homogeneous, the sides defeq, and no substitution applies: no side
\* is a variable, or the attempt of substCore failed
C24_DefEqOnly ==
    /\ hasHyp
    /\ hyp.type.k = "Eq"
    /\ normalForm(hypA) = normalForm(hypB)
    /\ (~isFVar(hypA) /\ ~isFVar(hypB)) \/ C12_SubstCoreFailed

\* C24: in that case a call in which no external call fails clears the
\* hypothesis and substitutes nothing: numNewEqs = 0, the substitution is
\* the one passed in, and the returned context is the input context without
\* the hypothesis, every other declaration as it was and where it was.
C24_ClearedWithoutSubstituting ==
    C24_DefEqOnly =>
        /\ (pc = "done" /\ ~externalFailure) => outcome = "some"
        /\ outcome = "some" =>
               /\ lastCall = "clear"
               /\ result.numNewEqs = 0
               /\ result.subst = subst0
               /\ Len(resCtx) = Len(ctx0) - 1
               /\ \A p \in DOMAIN ctx0 :
                      ctx0[p].id # eqFVarId =>
                          \E q \in DOMAIN resCtx : resCtx[q] = ctx0[p] /\ q <= p
               /\ ~contains(resCtx, eqFVarId)

\* C24 happens: x = x, which substCore cannot eliminate, was cleared
C24_Witness ==
    /\ outcome = "some"
    /\ C24_DefEqOnly
    /\ isFVar(hypA)
    /\ lastCall = "clear"

\* C25 -- both sides are the same application of a constructor
C25_SameConstructorApp ==
    /\ hasHyp
    /\ hyp.type.k = "Eq"
    /\ hypA.k = "ctor"
    /\ hypA = hypB

\* C25: when both sides are the same constructor application, injectionCore
\* and whnf are never called; isDefEq having answered, the hypothesis is
\* cleared and numNewEqs = 0 returned, unless an external call fails.
C25_IdenticalNotDecomposed ==
    C25_SameConstructorApp =>
        /\ C12_Count("injectionCore") = 0
        /\ C12_Count("whnf") = 0
        /\ \A i \in DOMAIN calls :
               calls[i] \in {"getLocalDecl", "instantiateMVars", "isExprDefEq", "clear"}
        /\ (pc = "done" /\ ~externalFailure) =>
               /\ outcome = "some"
               /\ result.numNewEqs = 0
               /\ resCtx = eraseDecl(ctx0, eqFVarId)

\* C25 happens: C x A = C x A was retired
C25_Witness ==
    /\ outcome = "some"
    /\ C25_SameConstructorApp
    /\ fvarsOf(hypA) # {}

\* substEq was entered: the direction has been chosen
C26_InSubstEq == pc = "substEq_substCore" \/ C12_Count("substCore") > 0

\* C26: when exactly one side of a homogeneous equality is a variable, the
\* direction handed to substEq is false for x = t and true for t = x, so
\* that the side substCore is to eliminate is the variable, and no
\* declaration is looked up for an index; the two variables are looked up,
\* and their indices compared, only when both sides are variables.
C26_VariableSideEliminated ==
    (C26_InSubstEq /\ hasHyp) =>
        /\ (isFVar(hypA) /\ ~isFVar(hypB)) =>
               (loc.symm = FALSE /\ C12_Count("getLocalDecl") = 1)
        /\ (~isFVar(hypA) /\ isFVar(hypB)) =>
               (loc.symm = TRUE /\ C12_Count("getLocalDecl") = 1)
        /\ (isFVar(hypA) /\ isFVar(hypB)) =>
               /\ C12_Count("getLocalDecl") = 3
               /\ loc.symm = (LocalDecl_index(ctx0, hypA.id) < LocalDecl_index(ctx0, hypB.id))
        /\ isFVar(IF loc.symm THEN hypB ELSE hypA)

\* C26 happens: t = x was resolved by eliminating x
C26_Witness ==
    /\ outcome = "some"
    /\ lastCall = "substCore"
    /\ ~isFVar(hypA)
    /\ isFVar(hypB)

\* C27: the substitution of a returned result is the substitution passed in
\* on every path but that of a successful substCore: after the conversion of
\* a heterogeneous hypothesis, a defeq clear, a subgoal of injectionCore and
\* the replacement by the reduced equality.
C27_SubstPassedThrough ==
    outcome = "some" =>
        /\ lastCall \in {"substCore", "clear", "injectionCore"}
        /\ lastCall # "substCore" => result.subst = subst0
        /\ result.subst # subst0 => (lastCall = "substCore" /\ eqFVarId \in DOMAIN result.subst)

\* C27 happens: a converted heterogeneous hypothesis is returned with the
\* non-empty substitution of the caller
C27_Witness ==
    /\ outcome = "some"
    /\ hyp.type.k = "HEq"
    /\ subst0 # emptySubst
    /\ result.subst = subst0

\* C28: every call ends, provided each external call returns; the
\* hypothesis is looked up and classified once, at the start of the call
\* and never again, and substCore, injectionCore and heqToEq' (its
\* mkEqOfHEq, assert and clear) are each called at most once.
C28_SinglePass ==
    /\ [](/\ C12_Count("substCore") <= 1
          /\ C12_Count("injectionCore") <= 1
          /\ C12_Count("mkEqOfHEq") <= 1
          /\ C12_Count("assert") <= 1
          /\ Len(calls) <= 11)
    /\ [][pc' # "start" /\ (pc' = "classify" => pc = "start")]_vars
    /\ <>(pc = "done")

\* C28 happens: the longest pass, through whnf of both sides with tracing
\* on, has ended
C28_Witness ==
    /\ pc = "done"
    /\ outcome = "some"
    /\ C12_Count("whnf") = 2
    /\ Len(traces) = 2

\* the two steps of injection that may emit a Meta.debug trace message
C29_TraceStep == pc \in {"injection_trace_a", "injection_lambda2"}

\* C29: tracing is purely observational.  The trace option is read by the two
\* trace steps only and never changes; such a step adds one message when the
\* option is on and nothing when it is off, and in both cases it continues at
\* the same step with the same contexts, assignments, fresh ids, reduced
\* sides, outcome, result and error; no other step emits a message.  Two calls
\* that differ in the option only therefore take the same steps and return
\* the same outcome.
C29_TracingObservational ==
    /\ [](~traceOn => (traces = <<>> /\ C12_Count("addTrace") = 0))
    /\ [][traceOn' = traceOn]_vars
    /\ [][C29_TraceStep =>
            /\ UNCHANGED <<lctx, assigned, nextId, newHyps, loc>>
            /\ UNCHANGED <<eqFVarId, subst0, caseName, outcome, result, err>>
            /\ pc' = (IF pc = "injection_trace_a" THEN "injection_lambda2"
                                                   ELSE "injection_lambda1")
            /\ IF traceOn
               THEN /\ Len(traces') = Len(traces) + 1
                    /\ calls' = Append(calls, "addTrace")
               ELSE UNCHANGED <<traces, calls>>]_vars
    /\ [][~C29_TraceStep => traces' = traces]_vars

\* C29 happens: both messages were emitted and the call went on to replace
\* the hypothesis by the reduced equality
C29_Witness ==
    /\ traceOn
    /\ pc = "done"
    /\ outcome = "some"
    /\ Len(traces) = 2
    /\ traces[1].tag = "a: " /\ traces[2].tag = "b: "
    /\ lastCall = "clear"
    /\ result.numNewEqs = 1

\* the call ended with the failure of injectionCore
C30_InjectionCoreFailed ==
    /\ pc = "done"
    /\ outcome = "error"
    /\ lastCall = "injectionCore"

\* C30 as stated: the error returned when injectionCore fails carries the type
\* of the originating equality declaration
C30_Original == C30_InjectionCoreFailed => err.type = hyp.type

\* C30: when injectionCore fails the call fails with the error of
\* injectionCore as it is, with no type attached and the goal left as it was;
\* injectionCore is the last step, so no produced hypothesis is simplified.
\* Only the errors unifyEq? throws itself carry the type of the hypothesis.
C30_InjectionErrorAsIs ==
    /\ C30_InjectionCoreFailed =>
           /\ err = [msg |-> "external", type |-> NoType, caseName |-> "",
                     from |-> "injectionCore"]
           /\ hyp.type.k = "Eq"
           /\ isConstructorApp(hypA) /\ isConstructorApp(hypB)
           /\ contextUntouched
           /\ C12_Count("injectionCore") = 1
    /\ (outcome = "error" /\ err.from = "unifyEq") =>
           /\ err.msg \in {"equality expected", "failed to solve equation"}
           /\ err.type = hyp.type
    /\ (outcome = "error" /\ err.from # "unifyEq") => err.type = NoType

\* C30 happens: injectionCore failed on an equation of two constructor
\* applications and the call returned its error
C30_Witness ==
    /\ C30_InjectionCoreFailed
    /\ C20_BothConstructors
    /\ err.from = "injectionCore"
    /\ err.type # hyp.type

====
